---- MODULE Spec2Model ----
(***************************************************************************)
(* A model of moltbot-audit: harden.py (interactive remediation of an      *)
(* OpenClaw configuration file) and audit.py (read-only scan of it).       *)
(*                                                                         *)
(* JSON documents are tagged trees: a mapping keeps its items in insertion *)
(* order (Python dict order), a string is a sequence of one-character      *)
(* strings, so that slicing, prefix tests, strip() and lower() are         *)
(* computed as the code computes them.                                     *)
(***************************************************************************)
EXTENDS Integers, Sequences, FiniteSets, TLC

(***************************************************************************)
(* Bounds of the model.                                                    *)
(***************************************************************************)
\* number of consecutive harden runs over the same file
MaxRuns == 2
\* how many of the sample channels a document may hold
MaxChannels == 2

(***************************************************************************)
(* Program constants.                                                      *)
(***************************************************************************)
\* stat.S_IRWXO, the rwx bits of "other"
S_IRWXO == 7
\* stat.S_IRWXG, the rwx bits of "group"
S_IRWXG == 56
\* os.chmod(path, 0o600)
Mode600 == 384
\* len(token) < 16
MinTokenLen == 16
\* secrets.token_hex(32): 32 random bytes
TokenBytes == 32
\* node[:4] and node[-4:]
MaskKeep == 4

(***************************************************************************)
(* Strings as character sequences.                                         *)
(***************************************************************************)
Min(a, b) == IF a < b THEN a ELSE b
Max(a, b) == IF a > b THEN a ELSE b

UpperCase == <<"A","B","C","D","E","F","G","H","I","J","K","L","M",
               "N","O","P","Q","R","S","T","U","V","W","X","Y","Z">>
LowerCase == <<"a","b","c","d","e","f","g","h","i","j","k","l","m",
               "n","o","p","q","r","s","t","u","v","w","x","y","z">>
Whitespace == {" ", "\t", "\n", "\r"}

\* str.lower() on one character
LowerChar(c) ==
  IF \E i \in 1..Len(UpperCase) : UpperCase[i] = c
  THEN LowerCase[CHOOSE i \in 1..Len(UpperCase) : UpperCase[i] = c]
  ELSE c

\* str.lower()
Lower(s) == [i \in 1..Len(s) |-> LowerChar(s[i])]

\* str.strip(): drop leading and trailing whitespace
Strip(s) ==
  LET keep == {i \in 1..Len(s) : s[i] \notin Whitespace}
  IN IF keep = {} THEN <<>>
     ELSE LET lo == CHOOSE i \in keep : \A j \in keep : i <= j
              hi == CHOOSE i \in keep : \A j \in keep : i >= j
          IN SubSeq(s, lo, hi)

\* str.startswith(prefix)
StartsWith(s, p) == Len(s) >= Len(p) /\ SubSeq(s, 1, Len(p)) = p

\* s[:n]
Head_(s, n) == SubSeq(s, 1, Min(n, Len(s)))
\* s[-n:]
Tail_(s, n) == SubSeq(s, Max(1, Len(s) - n + 1), Len(s))

\* a string of n copies of c
Rep(c, n) == [i \in 1..n |-> c]

(***************************************************************************)
(* JSON values.                                                            *)
(***************************************************************************)
Str(cs)    == [t |-> "str", chars |-> cs]
Bool(b)    == [t |-> "bool", b |-> b]
Dict(its)  == [t |-> "dict", items |-> its]
Item(k, v) == [k |-> k, v |-> v]
EmptyDict  == Dict(<<>>)
\* Python's None, what load_config returns for the document on failure
None       == [t |-> "none"]

IsDict(n) == n.t = "dict"
IsStr(n)  == n.t = "str"

HasKey(d, k) == \E i \in 1..Len(d.items) : d.items[i].k = k
\* d[k]
At(d, k) == d.items[CHOOSE i \in 1..Len(d.items) : d.items[i].k = k].v
\* d.get(k, default)
Get(d, k, default) == IF HasKey(d, k) THEN At(d, k) ELSE default
\* d[k] = v : replaces in place, or appends a new key last
Set(d, k, v) ==
  IF HasKey(d, k)
  THEN Dict([i \in 1..Len(d.items) |->
               IF d.items[i].k = k THEN Item(k, v) ELSE d.items[i]])
  ELSE Dict(Append(d.items, Item(k, v)))

\* Python truthiness of a loaded document or mapping: None and {} are falsy
Truthy(n) ==
  CASE n.t = "none" -> FALSE
    [] n.t = "dict" -> Len(n.items) > 0
    [] n.t = "str"  -> Len(n.chars) > 0
    [] n.t = "bool" -> n.b

(***************************************************************************)
(* The vocabulary of the configuration.                                    *)
(***************************************************************************)
s_0000      == Str(<<"0",".","0",".","0",".","0">>)
s_all       == Str(<<"a","l","l">>)
s_colons    == Str(<<":",":">>)
s_loopback  == Str(<<"l","o","o","p","b","a","c","k">>)
s_localhost == Str(<<"l","o","c","a","l","h","o","s","t">>)
s_127       == Str(<<"1","2","7",".","0",".","0",".","1">>)
s_custom    == Str(<<"1","0",".","0",".","0",".","5">>)
s_none      == Str(<<"n","o","n","e">>)
s_token     == Str(<<"t","o","k","e","n">>)
s_password  == Str(<<"p","a","s","s","w","o","r","d">>)
s_open      == Str(<<"o","p","e","n">>)
s_pairing   == Str(<<"p","a","i","r","i","n","g">>)
s_allowlist == Str(<<"a","l","l","o","w","l","i","s","t">>)
s_empty     == Str(<<>>)

ExposedBinds == {s_0000, s_all, s_colons}
LocalBinds   == {s_loopback, s_localhost, s_127}

\* suspicious_prefixes of check_secrets
suspicious_prefixes ==
  << <<"s","k","-">>, <<"A","I","z","a">>, <<"x","o","x","b","-">>,
     <<"x","o","x","p","-">>, <<"g","h","p","_">> >>

(***************************************************************************)
(* Permission bits.                                                        *)
(***************************************************************************)
RECURSIVE BitAnd(_, _)
\* a & b
BitAnd(a, b) ==
  IF a = 0 \/ b = 0 THEN 0
  ELSE (a % 2) * (b % 2) + 2 * BitAnd(a \div 2, b \div 2)

RECURSIVE BitOr(_, _)
\* a | b
BitOr(a, b) ==
  IF a = 0 THEN b
  ELSE IF b = 0 THEN a
  ELSE Max(a % 2, b % 2) + 2 * BitOr(a \div 2, b \div 2)

\* (mode & stat.S_IRWXO) or (mode & stat.S_IRWXG)
TooPermissive(m) == BitAnd(m, S_IRWXO) # 0 \/ BitAnd(m, S_IRWXG) # 0

\* a faulty chmod that adds the requested bits to the present ones
ChmodAdds(old, new) == BitOr(old, new)
\* os.chmod(path, new): the file's permission bits become new
Chmod(old, new) == new

(***************************************************************************)
(* Standard input: one read of input() is a line, or end of input.         *)
(***************************************************************************)
Line(cs) == [eof |-> FALSE, line |-> cs]
EOF      == [eof |-> TRUE, line |-> <<>>]

\* what the operator may type at a [Y/n] prompt
Answers == { Line(<<"y">>), Line(<<>>), Line(<<"n">>), Line(<<" ","N"," ">>),
             Line(<<"n","o">>) }
Inputs == Answers \cup {EOF}

\* input(...).strip().lower()
Choice(inp) == Lower(Strip(inp.line))
\* choice != 'n'
Accepts(inp) == Choice(inp) # <<"n">>

\* one entry of the run's change log: the proposal and the operator's answer
Entry(kind, target, inp) ==
  [kind |-> kind, target |-> target,
   answer |-> IF inp.eof THEN "eof" ELSE IF Accepts(inp) THEN "accept" ELSE "decline"]


(***************************************************************************)
(* harden.py: the remediation steps, each a function of what it reads.     *)
(***************************************************************************)
\* secrets.token_hex(32): 64 hexadecimal characters; two outcomes stand for
\* the random draw
NewTokens == { Str(Rep(c, 2 * TokenBytes)) : c \in {"a", "7"} }

\* fix_permissions. raised: the exception that leaves the function, "" if none.
\* result: what the step reports.
fix_permissions(m, plat, statOk, inp, chmodOk) ==
  IF plat = "Windows"
  THEN [mode |-> m, raised |-> "", result |-> "skipped", log |-> <<>>]
  ELSE IF ~statOk
  THEN [mode |-> m, raised |-> "OSError", result |-> "failed", log |-> <<>>]
  ELSE IF TooPermissive(m)
  THEN IF inp.eof
       THEN [mode |-> m, raised |-> "EOFError", result |-> "none",
             log |-> <<Entry("permissions", "", inp)>>]
       ELSE IF Accepts(inp)
       THEN IF chmodOk
            THEN [mode |-> Chmod(m, Mode600), raised |-> "", result |-> "fixed",
                  log |-> <<Entry("permissions", "", inp)>>]
            ELSE [mode |-> m, raised |-> "OSError", result |-> "failed",
                  log |-> <<Entry("permissions", "", inp)>>]
       ELSE [mode |-> m, raised |-> "", result |-> "declined",
             log |-> <<Entry("permissions", "", inp)>>]
  ELSE [mode |-> m, raised |-> "", result |-> "pass", log |-> <<>>]

\* a faulty bind fix that does not look at the answer
SetBindAlways(g, accepted) == Set(g, "bind", s_loopback)
\* if choice != 'n': gateway['bind'] = 'loopback'
SetBind(g, accepted) == IF accepted THEN Set(g, "bind", s_loopback) ELSE g

\* the mapping held under key k is mutated in place: the document sees it
Aliased(cfg, k, v) == IF HasKey(cfg, k) THEN Set(cfg, k, v) ELSE cfg

\* fix_gateway, part 1: the bind address
fix_gateway_bind(cfg, inp) ==
  LET g    == Get(cfg, "gateway", EmptyDict)
      bind == Get(g, "bind", s_loopback)
  IN IF bind \in ExposedBinds
     THEN IF inp.eof
          THEN [config |-> cfg, gateway |-> g, changed |-> FALSE,
                raised |-> "EOFError", log |-> <<Entry("gateway-bind", "", inp)>>]
          ELSE LET g2 == SetBind(g, Accepts(inp))
               IN [config |-> Aliased(cfg, "gateway", g2), gateway |-> g2,
                   changed |-> Accepts(inp), raised |-> "",
                   log |-> <<Entry("gateway-bind", "", inp)>>]
     ELSE [config |-> cfg, gateway |-> g, changed |-> FALSE, raised |-> "",
           log |-> <<>>]

\* fix_gateway, part 2: the auth mode and the token, and the write-back
fix_gateway_auth(cfg, g, chg, inp, new_token) ==
  LET auth == Get(g, "auth", EmptyDict)
      mode_ == Get(auth, "mode", s_token)
      token == Get(auth, "token", s_empty)
      kind == IF mode_ = s_none THEN "gateway-auth"
              ELSE IF mode_ = s_token /\ Len(token.chars) < MinTokenLen
              THEN "weak-token" ELSE ""
      auth2 == IF kind = "gateway-auth"
               THEN Set(Set(auth, "mode", s_token), "token", new_token)
               ELSE Set(auth, "token", new_token)
      g2 == Set(g, "auth", auth2)
  IN IF kind = ""
     THEN [config |-> IF chg THEN Set(cfg, "gateway", g) ELSE cfg,
           gateway |-> g, changed |-> chg, raised |-> "", log |-> <<>>]
     ELSE IF inp.eof
     THEN [config |-> cfg, gateway |-> g, changed |-> chg, raised |-> "EOFError",
           log |-> <<Entry(kind, "", inp)>>]
     ELSE IF Accepts(inp)
     THEN [config |-> Set(cfg, "gateway", g2), gateway |-> g2, changed |-> TRUE,
           raised |-> "", log |-> <<Entry(kind, "", inp)>>]
     ELSE [config |-> IF chg THEN Set(cfg, "gateway", g) ELSE cfg,
           gateway |-> g, changed |-> chg, raised |-> "",
           log |-> <<Entry(kind, "", inp)>>]

\* fix_channels: one iteration of the loop over channels.items(), at item i
fix_channels_item(cfg, i, chg, inp) ==
  LET channels == Get(cfg, "channels", EmptyDict)
      name     == channels.items[i].k
      settings == channels.items[i].v
      dm_policy == Get(settings, "dmPolicy", s_pairing)
  IN IF ~Truthy(Get(settings, "enabled", Bool(FALSE)))
     THEN [config |-> cfg, changed |-> chg, raised |-> "", log |-> <<>>]
     ELSE IF dm_policy = s_open
     THEN IF inp.eof
          THEN [config |-> cfg, changed |-> chg, raised |-> "EOFError",
                log |-> <<Entry("channel-dm", name, inp)>>]
          ELSE IF Accepts(inp)
          THEN [config |-> Set(cfg, "channels",
                             Set(channels, name, Set(settings, "dmPolicy", s_pairing))),
                changed |-> TRUE, raised |-> "",
                log |-> <<Entry("channel-dm", name, inp)>>]
          ELSE [config |-> cfg, changed |-> chg, raised |-> "",
                log |-> <<Entry("channel-dm", name, inp)>>]
     ELSE [config |-> cfg, changed |-> chg, raised |-> "", log |-> <<>>]

\* main: what follows backup_config(path)
AfterBackupIgnored(ok) == "perm"
\* if not backup_config(path): return
AfterBackup(ok) == IF ok THEN "perm" ELSE "done"


(***************************************************************************)
(* The config file on disk.                                                *)
(***************************************************************************)
\* a JSON text: the document it parses to, and how its bytes are laid out
\* ("original": as the operator wrote it, "indent2": as json.dump(indent=2))
Text(doc, fmt) == [state |-> "text", doc |-> doc, fmt |-> fmt]
Absent  == [state |-> "absent", doc |-> None, fmt |-> ""]
\* bytes that do not parse: a hand-made syntax error, or a write cut short
Garbage == [state |-> "garbage", doc |-> None, fmt |-> ""]

\* load_config of harden.py: json.load(f), or None on a missing or bad file
load_config(d) == IF d.state = "text" THEN d.doc ELSE None

\* save_config: open(path, 'w') then json.dump(config, f, indent=2)
save_config(cfg, d, res) ==
  CASE res = "ok"           -> Text(cfg, "indent2")
    [] res = "open_failed"  -> d
    [] res = "write_failed" -> Garbage

(***************************************************************************)
(* Sample documents.                                                       *)
(***************************************************************************)
tok_short == Str(Rep("x", MinTokenLen - 1))
tok_min   == Str(Rep("x", MinTokenLen))

\* "sk-12345": a flagged string of 8 characters
key_8    == Str(<<"s","k","-","1","2","3","4","5">>)
\* "sk-123456": a flagged string of 9 characters
key_9    == Str(<<"s","k","-","1","2","3","4","5","6">>)
\* "sk-abcdef1234567890"
key_long == Str(<<"s","k","-","a","b","c","d","e","f",
                  "1","2","3","4","5","6","7","8","9","0">>)
\* "ghp_0123456789"
key_ghp  == Str(<<"g","h","p","_","0","1","2","3","4","5","6","7","8","9">>)
plain    == Str(<<"m","o","l","t","y">>)

AuthDicts ==
  { Dict(<<Item("mode", s_none)>>),
    Dict(<<Item("mode", s_token)>>),
    Dict(<<Item("mode", s_token), Item("token", tok_short)>>),
    Dict(<<Item("mode", s_token), Item("token", tok_min)>>),
    Dict(<<Item("token", tok_short)>>),
    Dict(<<Item("mode", s_password)>>) }
AuthOpts == {<<>>} \cup { <<Item("auth", a)>> : a \in AuthDicts }
BindOpts == {<<>>} \cup { <<Item("bind", b)>> :
                            b \in {s_0000, s_colons, s_localhost, s_custom} }

g_none    == <<>>
g_exposed == <<Item("gateway", Dict(<<Item("bind", s_0000),
                                      Item("auth", Dict(<<Item("mode", s_none)>>))>>))>>
GatewayOpts ==
  {g_none} \cup
  { <<Item("gateway", Dict(b \o a))>> :
      <<b, a>> \in { x \in BindOpts \X AuthOpts :
                       \/ x[1] \in {<<>>, <<Item("bind", s_0000)>>}
                       \/ x[2] \in {<<>>, <<Item("auth", Dict(<<Item("mode", s_none)>>))>>} } }

ChannelNames == <<"telegram", "discord", "slack", "signal">>
open_enabled  == Dict(<<Item("enabled", Bool(TRUE)), Item("dmPolicy", s_open)>>)
open_disabled == Dict(<<Item("enabled", Bool(FALSE)), Item("dmPolicy", s_open)>>)
SettingsSamples ==
  { open_enabled, open_disabled,
    Dict(<<Item("enabled", Bool(TRUE)), Item("dmPolicy", s_open),
           Item("groupPolicy", s_open)>>),
    Dict(<<Item("dmPolicy", s_open)>>),
    Dict(<<Item("enabled", Bool(TRUE))>>),
    Dict(<<Item("enabled", Bool(TRUE)), Item("dmPolicy", s_allowlist)>>) }

c_none == <<>>
c_open == <<Item("channels", Dict(<<Item(ChannelNames[1], open_enabled)>>))>>
ChannelOpts ==
  {c_none, <<Item("channels", EmptyDict)>>}
  \cup { <<Item("channels", Dict(<<Item(ChannelNames[1], st)>>))>> : st \in SettingsSamples }
  \cup { <<Item("channels", Dict([i \in 1..n |-> Item(ChannelNames[i], open_enabled)]))>> :
           n \in 2..MaxChannels }
  \cup { <<Item("channels", Dict([i \in 1..n |->
              Item(ChannelNames[i], IF i = 1 THEN open_disabled ELSE open_enabled)]))>> :
           n \in 2..MaxChannels }

e_none == <<>>
ExtraOpts ==
  { e_none,
    <<Item("name", plain)>>,
    <<Item("apiKey", key_8)>>,
    <<Item("apiKey", key_9)>>,
    <<Item("apiKey", key_long)>>,
    <<Item("env", Dict(<<Item("OPENAI", key_long), Item("GITHUB", key_ghp)>>)),
      Item("name", plain)>> }

Docs ==
  { Dict(x[1] \o x[2] \o x[3]) :
      x \in (GatewayOpts \X {c_none, c_open} \X {e_none})
            \cup ({g_none, g_exposed} \X ChannelOpts \X {e_none})
            \cup ({g_none, g_exposed} \X {c_none} \X ExtraOpts) }

\* rw-------, rw-r-----, rw-r--r--, r--r-----
SampleModes == {384, 416, 420, 288}
\* on Windows os.stat reports rw-rw-rw- for a writable file
WindowsModes == {438}

(***************************************************************************)
(* State.                                                                  *)
(***************************************************************************)
VARIABLES
  prog,         \* which script runs: "harden" or "audit"
  platform,     \* platform.system()
  dry_run,      \* args.dry_run
  run,          \* number of the run over this file
  pc,           \* position of the run in main
  outcome,      \* how main ended: "" while running
  disk,         \* the config file
  mode,         \* permission bits of the config file
  backupFile,   \* the file <config>.json.bak.security
  backed_up,    \* backup_config of this run: "no" (not called), "yes", "failed"
  config,       \* the loaded document, mutated in memory
  gateway,      \* local gateway of fix_gateway
  changed,      \* local changed of fix_gateway / fix_channels
  changes_made, \* changes_made of main
  ci,           \* position of fix_channels in channels.items()
  log,          \* proposals put to the operator in this run, with the answers
  perm_result,  \* what the permission step of this run reported
  findings,     \* findings printed by the audit, in order
  disk0,        \* the config file when this run started
  mode0,        \* its permission bits when this run started
  backupFile0,  \* the backup file when this run started
  prev          \* the previous run: its outcome, and whether every proposal
                \* it made was accepted

vars == <<prog, platform, dry_run, run, pc, outcome, disk, mode, backupFile,
          backed_up, config, gateway, changed, changes_made, ci, log,
          perm_result, findings, disk0, mode0, backupFile0, prev>>

\* every proposal of the log was accepted
AllAccepted(l) == \A i \in 1..Len(l) : l[i].answer = "accept"
\* every proposal of the log was declined
AllDeclined(l) == \A i \in 1..Len(l) : l[i].answer = "decline"

NoRun == [outcome |-> "", all_accepted |-> TRUE]

Init ==
  /\ prog \in {"harden", "audit"}
  /\ platform \in {"Linux", "Windows"}
  /\ dry_run \in (IF prog = "harden" THEN BOOLEAN ELSE {FALSE})
  /\ run = 1
  /\ pc = "start"
  /\ outcome = ""
  /\ disk \in {Absent, Garbage} \cup { Text(d, "original") : d \in Docs }
  /\ mode \in (IF platform = "Windows" THEN WindowsModes ELSE SampleModes)
  /\ backupFile = Absent
  /\ backed_up = "no"
  /\ config = None
  /\ gateway = None
  /\ changed = FALSE
  /\ changes_made = FALSE
  /\ ci = 0
  /\ log = <<>>
  /\ perm_result = "none"
  /\ findings = <<>>
  /\ disk0 = disk
  /\ mode0 = mode
  /\ backupFile0 = backupFile
  /\ prev = NoRun

(***************************************************************************)
(* harden.py: main.                                                        *)
(***************************************************************************)
\* an exception leaves main: the process ends with a traceback
Raise(exc) == pc' = "done" /\ outcome' = exc

\* config, path = load_config(args.config); if not config: return
HardenLoad ==
  /\ prog = "harden" /\ pc = "start"
  /\ config' = load_config(disk)
  /\ IF Truthy(config')
     THEN pc' = (IF dry_run THEN "perm" ELSE "backup") /\ outcome' = outcome
     ELSE /\ pc' = "done"
          /\ outcome' = CASE disk.state = "absent"  -> "config_not_found"
                          [] disk.state = "garbage" -> "parse_error"
                          [] OTHER                  -> "empty_config"
  /\ UNCHANGED <<prog, platform, dry_run, run, disk, mode, backupFile, backed_up,
                 gateway, changed, changes_made, ci, log, perm_result, findings,
                 disk0, mode0, backupFile0, prev>>

\* if not args.dry_run: if not backup_config(path): return
Backup ==
  /\ prog = "harden" /\ pc = "backup"
  /\ \E ok \in BOOLEAN :
       /\ backed_up' = (IF ok THEN "yes" ELSE "failed")
       /\ IF ok THEN backupFile' = disk
                ELSE backupFile' \in {backupFile, Garbage}
       /\ pc' = AfterBackup(ok)
       /\ outcome' = (IF pc' = "done" THEN "aborted_backup_failure" ELSE outcome)
  /\ UNCHANGED <<prog, platform, dry_run, run, disk, mode, config, gateway,
                 changed, changes_made, ci, log, perm_result, findings,
                 disk0, mode0, backupFile0, prev>>

\* if fix_permissions(path) and not args.dry_run: pass
FixPermissions ==
  /\ prog = "harden" /\ pc = "perm"
  /\ \E statOk \in BOOLEAN, chmodOk \in BOOLEAN, inp \in Inputs :
       LET r == fix_permissions(mode, platform, statOk, inp, chmodOk)
       IN /\ mode' = r.mode
          /\ perm_result' = r.result
          /\ log' = log \o r.log
          /\ IF r.raised # "" THEN Raise(r.raised)
             ELSE pc' = "gw_bind" /\ outcome' = outcome
  /\ UNCHANGED <<prog, platform, dry_run, run, disk, backupFile, backed_up,
                 config, gateway, changed, changes_made, ci, findings,
                 disk0, mode0, backupFile0, prev>>

\* fix_gateway(config), up to the bind prompt
GatewayBind ==
  /\ prog = "harden" /\ pc = "gw_bind"
  /\ \E inp \in Inputs :
       LET r == fix_gateway_bind(config, inp)
       IN /\ config' = r.config
          /\ gateway' = r.gateway
          /\ changed' = r.changed
          /\ log' = log \o r.log
          /\ IF r.raised # "" THEN Raise(r.raised)
             ELSE pc' = "gw_auth" /\ outcome' = outcome
  /\ UNCHANGED <<prog, platform, dry_run, run, disk, mode, backupFile, backed_up,
                 changes_made, ci, perm_result, findings,
                 disk0, mode0, backupFile0, prev>>

\* fix_gateway(config), from the auth check to its return:
\* if fix_gateway(config): changes_made = True
GatewayAuth ==
  /\ prog = "harden" /\ pc = "gw_auth"
  /\ \E inp \in Inputs, new_token \in NewTokens :
       LET r == fix_gateway_auth(config, gateway, changed, inp, new_token)
       IN /\ config' = r.config
          /\ gateway' = r.gateway
          /\ log' = log \o r.log
          /\ IF r.raised # ""
             THEN Raise(r.raised) /\ UNCHANGED <<changed, changes_made, ci>>
             ELSE /\ changes_made' = r.changed
                  /\ changed' = FALSE
                  /\ ci' = 1
                  /\ pc' = "channels" /\ outcome' = outcome
  /\ UNCHANGED <<prog, platform, dry_run, run, disk, mode, backupFile, backed_up,
                 perm_result, findings, disk0, mode0, backupFile0, prev>>

\* the items fix_channels iterates over; none when `not channels`
ChannelItems == 
  LET channels == Get(config, "channels", EmptyDict)
  IN IF Truthy(channels) THEN channels.items ELSE <<>>

\* fix_channels(config): one iteration of the loop
FixChannelsItem ==
  /\ prog = "harden" /\ pc = "channels"
  /\ ci <= Len(ChannelItems)
  /\ \E inp \in Inputs :
       LET r == fix_channels_item(config, ci, changed, inp)
       IN /\ config' = r.config
          /\ changed' = r.changed
          /\ log' = log \o r.log
          /\ IF r.raised # "" THEN Raise(r.raised) /\ ci' = ci
             ELSE ci' = ci + 1 /\ pc' = "channels" /\ outcome' = outcome
  /\ UNCHANGED <<prog, platform, dry_run, run, disk, mode, backupFile, backed_up,
                 gateway, changes_made, perm_result, findings,
                 disk0, mode0, backupFile0, prev>>

\* fix_channels returns: if fix_channels(config): changes_made = True
FixChannelsReturn ==
  /\ prog = "harden" /\ pc = "channels"
  /\ ci > Len(ChannelItems)
  /\ changes_made' = (changes_made \/ changed)
  /\ pc' = "save"
  /\ UNCHANGED <<prog, platform, dry_run, run, outcome, disk, mode, backupFile,
                 backed_up, config, gateway, changed, ci, log, perm_result,
                 findings, disk0, mode0, backupFile0, prev>>

\* if changes_made: ... save_config(config, path) ... else: nothing to apply
Save ==
  /\ prog = "harden" /\ pc = "save"
  /\ IF changes_made
     THEN IF dry_run
          THEN disk' = disk /\ outcome' = "dry_run"
          ELSE \E res \in {"ok", "open_failed", "write_failed"} :
                 /\ disk' = save_config(config, disk, res)
                 /\ outcome' = (IF res = "ok" THEN "saved" ELSE "save_failed")
     ELSE disk' = disk /\ outcome' = "no_changes"
  /\ pc' = "done"
  /\ UNCHANGED <<prog, platform, dry_run, run, mode, backupFile, backed_up,
                 config, gateway, changed, changes_made, ci, log, perm_result,
                 findings, disk0, mode0, backupFile0, prev>>

\* main reached its end (or the early return for a falsy document) without
\* reporting an error
Completed == {"saved", "save_failed", "dry_run", "no_changes", "empty_config"}

\* the operator starts harden.py again on the same file
Rerun ==
  /\ prog = "harden" /\ pc = "done"
  /\ run < MaxRuns
  /\ outcome \in Completed
  /\ run' = run + 1
  /\ prev' = [outcome |-> outcome, all_accepted |-> AllAccepted(log)]
  /\ pc' = "start" /\ outcome' = ""
  /\ backed_up' = "no" /\ config' = None /\ gateway' = None
  /\ changed' = FALSE /\ changes_made' = FALSE /\ ci' = 0
  /\ log' = <<>> /\ perm_result' = "none"
  /\ disk0' = disk /\ mode0' = mode /\ backupFile0' = backupFile
  /\ UNCHANGED <<prog, platform, dry_run, disk, mode, backupFile, findings>>

HardenNext ==
  \/ HardenLoad \/ Backup \/ FixPermissions \/ GatewayBind \/ GatewayAuth
  \/ FixChannelsItem \/ FixChannelsReturn \/ Save \/ Rerun


(***************************************************************************)
(* audit.py: the checks, each the sequence of findings it prints.          *)
(***************************************************************************)
Finding(cat, sev, loc, text) ==
  [category |-> cat, severity |-> sev, location |-> loc, text |-> text]

\* check_file_permissions
check_file_permissions(m, plat, statOk) ==
  IF plat = "Windows"
  THEN [findings |-> <<Finding("permissions", "info", <<>>, <<>>)>>, raised |-> ""]
  ELSE IF ~statOk
  THEN [findings |-> <<>>, raised |-> "OSError"]
  ELSE [findings |->
          <<Finding("permissions",
                    IF BitAnd(m, S_IRWXO) # 0 THEN "fail"
                    ELSE IF BitAnd(m, S_IRWXG) # 0 THEN "warn" ELSE "pass",
                    <<>>, <<>>)>>,
        raised |-> ""]

\* check_gateway
check_gateway(cfg) ==
  LET g     == Get(cfg, "gateway", EmptyDict)
      bind  == Get(g, "bind", s_loopback)
      auth  == Get(g, "auth", EmptyDict)
      mode_ == Get(auth, "mode", s_token)
      token == Get(auth, "token", s_empty)
  IN << Finding("gateway-bind",
                IF bind \in ExposedBinds THEN "fail"
                ELSE IF bind \in LocalBinds THEN "pass" ELSE "warn",
                <<"gateway", "bind">>, <<>>),
        Finding("gateway-auth",
                IF mode_ = s_none THEN "critical"
                ELSE IF mode_ = s_token
                     THEN (IF Len(token.chars) < MinTokenLen THEN "warn" ELSE "pass")
                     ELSE "pass",
                <<"gateway", "auth">>, <<>>) >>

\* the body of the loop of check_channels for one item
check_channel(name, settings) ==
  IF ~Truthy(Get(settings, "enabled", Bool(FALSE)))
  THEN <<>>
  ELSE LET dm_policy    == Get(settings, "dmPolicy", s_pairing)
           group_policy == Get(settings, "groupPolicy", s_allowlist)
       IN << Finding("channel-dm",
                     IF dm_policy = s_open THEN "fail"
                     ELSE IF dm_policy \in {s_pairing, s_allowlist} THEN "pass"
                     ELSE "warn",
                     <<"channels", name, "dmPolicy">>, <<>>),
             Finding("channel-group",
                     IF group_policy = s_open THEN "fail" ELSE "pass",
                     <<"channels", name, "groupPolicy">>, <<>>) >>

RECURSIVE check_channels_from(_, _)
check_channels_from(items, i) ==
  IF i > Len(items) THEN <<>>
  ELSE check_channel(items[i].k, items[i].v) \o check_channels_from(items, i + 1)

\* check_channels
check_channels(cfg) ==
  LET channels == Get(cfg, "channels", EmptyDict)
  IN IF ~Truthy(channels)
     THEN <<Finding("channels", "info", <<"channels">>, <<>>)>>
     ELSE check_channels_from(channels.items, 1)

\* node.startswith(prefix) for some prefix of suspicious_prefixes
Suspicious(cs) ==
  \E i \in 1..Len(suspicious_prefixes) : StartsWith(cs, suspicious_prefixes[i])

RECURSIVE walk_json(_, _), walk_items(_, _, _)
\* walk_json without its prints: the flagged string leaves, in visiting order,
\* each with its path (the keys joined by "." in the code)
walk_json(node, path) ==
  IF IsDict(node) THEN walk_items(node.items, path, 1)
  ELSE IF IsStr(node) /\ Suspicious(node.chars)
       THEN <<[path |-> path, value |-> node.chars]>>
       ELSE <<>>
walk_items(items, path, i) ==
  IF i > Len(items) THEN <<>>
  ELSE walk_json(items[i].v, Append(path, items[i].k))
       \o walk_items(items, path, i + 1)

\* masked = node[:4] + "..." + node[-4:]
masked(cs) == Head_(cs, MaskKeep) \o <<".", ".", ".">> \o Tail_(cs, MaskKeep)

SecretFinding(leaf) == Finding("secret-leak", "warn", leaf.path, masked(leaf.value))

\* check_secrets: at the first flagged leaf the finding is printed, and then
\* the "Example: export {k.upper()}_KEY" line reads k, a local of walk_json
\* that only the mapping branch binds: UnboundLocalError
check_secrets(cfg) ==
  LET flagged == walk_json(cfg, <<>>)
  IN IF flagged = <<>>
     THEN [findings |-> <<>>, raised |-> ""]
     ELSE [findings |-> <<SecretFinding(flagged[1])>>, raised |-> "UnboundLocalError"]

(***************************************************************************)
(* audit.py: main.                                                         *)
(***************************************************************************)
\* config, path = load_config(args.config); if config: ...
\* load_config of audit.py returns a bare None for a missing file, which main
\* cannot unpack
AuditLoad ==
  /\ prog = "audit" /\ pc = "start"
  /\ config' = load_config(disk)
  /\ IF disk.state = "absent" THEN Raise("TypeError")
     ELSE IF Truthy(config') THEN pc' = "a_perm" /\ outcome' = outcome
     ELSE /\ pc' = "done"
          /\ outcome' = (IF disk.state = "garbage" THEN "parse_error"
                         ELSE "empty_config")
  /\ UNCHANGED <<prog, platform, dry_run, run, disk, mode, backupFile, backed_up,
                 gateway, changed, changes_made, ci, log, perm_result, findings,
                 disk0, mode0, backupFile0, prev>>

AuditFrame ==
  UNCHANGED <<prog, platform, dry_run, run, disk, mode, backupFile, backed_up,
              config, gateway, changed, changes_made, ci, log, perm_result,
              disk0, mode0, backupFile0, prev>>

\* check_file_permissions(path)
CheckFilePermissions ==
  /\ prog = "audit" /\ pc = "a_perm"
  /\ \E statOk \in BOOLEAN :
       LET r == check_file_permissions(mode, platform, statOk)
       IN /\ findings' = findings \o r.findings
          /\ IF r.raised # "" THEN Raise(r.raised)
             ELSE pc' = "a_gateway" /\ outcome' = outcome
  /\ AuditFrame

\* check_gateway(config)
CheckGateway ==
  /\ prog = "audit" /\ pc = "a_gateway"
  /\ findings' = findings \o check_gateway(config)
  /\ pc' = "a_channels" /\ outcome' = outcome
  /\ AuditFrame

\* check_channels(config)
CheckChannels ==
  /\ prog = "audit" /\ pc = "a_channels"
  /\ findings' = findings \o check_channels(config)
  /\ pc' = "a_secrets" /\ outcome' = outcome
  /\ AuditFrame

\* check_secrets(config); print("=== Audit Complete ===")
CheckSecrets ==
  /\ prog = "audit" /\ pc = "a_secrets"
  /\ LET r == check_secrets(config)
     IN /\ findings' = findings \o r.findings
        /\ IF r.raised # "" THEN Raise(r.raised)
           ELSE pc' = "done" /\ outcome' = "audit_complete"
  /\ AuditFrame

AuditNext ==
  \/ AuditLoad \/ CheckFilePermissions \/ CheckGateway \/ CheckChannels
  \/ CheckSecrets

Next == HardenNext \/ AuditNext

Spec == Init /\ [][Next]_vars

(***************************************************************************)
(* The permission step over every mode: harden.py on one document, with    *)
(* each of the 512 settings of the nine permission bits, up to the end of  *)
(* fix_permissions.                                                        *)
(***************************************************************************)
InitPerm ==
  /\ prog = "harden"
  /\ platform = "Linux"
  /\ dry_run \in BOOLEAN
  /\ run = 1
  /\ pc = "start"
  /\ outcome = ""
  /\ disk = Text(Dict(g_exposed \o c_open), "original")
  /\ mode \in 0..511
  /\ backupFile = Absent
  /\ backed_up = "no"
  /\ config = None
  /\ gateway = None
  /\ changed = FALSE
  /\ changes_made = FALSE
  /\ ci = 0
  /\ log = <<>>
  /\ perm_result = "none"
  /\ findings = <<>>
  /\ disk0 = disk
  /\ mode0 = mode
  /\ backupFile0 = backupFile
  /\ prev = NoRun

NextPerm == HardenLoad \/ Backup \/ FixPermissions

SpecPerm == InitPerm /\ [][NextPerm]_vars


(***************************************************************************)
(* Properties.                                                             *)
(***************************************************************************)
Harden == prog = "harden"
Audit  == prog = "audit"
\* the document this run loaded
Loaded == disk0.state = "text"
\* main ran to its last statement
NormalEnd == {"saved", "save_failed", "dry_run", "no_changes"}

HasAnswer(kind, target, answer) ==
  \E i \in 1..Len(log) :
    log[i].kind = kind /\ log[i].target = target /\ log[i].answer = answer

\* the effective gateway settings of a document, as fix_gateway reads them
BindOf(cfg)  == Get(Get(cfg, "gateway", EmptyDict), "bind", s_loopback)
AuthOf(cfg)  == Get(Get(cfg, "gateway", EmptyDict), "auth", EmptyDict)
ModeOf(cfg)  == Get(AuthOf(cfg), "mode", s_token)
TokenOf(cfg) == Get(AuthOf(cfg), "token", s_empty)
ChannelsOf(cfg) == Get(cfg, "channels", EmptyDict)

\* C1: the config file is never overwritten unless backup_config succeeded
\* earlier in the same run; when the backup fails the run aborts at once and
\* the file (content and mode) is what it was when the run started.
C1_BackupBeforeWrite ==
  Harden =>
    /\ disk # disk0 => backed_up = "yes"
    /\ backed_up = "failed" =>
         /\ pc = "done" /\ outcome = "aborted_backup_failure"
         /\ disk = disk0 /\ mode = mode0

\* C1 witness: a run over a document with an exposed gateway whose backup
\* failed, and which ended there.
C1_Witness ==
  /\ Harden /\ backed_up = "failed" /\ pc = "done"
  /\ Loaded /\ BindOf(disk0.doc) \in ExposedBinds
  /\ disk = disk0

\* C2: in a --dry-run run nothing is written: the config file's content and
\* permission bits are those at the start of the run and no backup file is
\* created.
C2_DryRunWritesNothing ==
  (Harden /\ dry_run) => disk = disk0 /\ mode = mode0 /\ backupFile = backupFile0

\* C3 as claimed: the permission bits after fix_permissions are a subset of
\* the bits before; no role, the owner included, gains a bit.
C3_NeverWidens == Harden => BitAnd(mode, mode0) = mode

\* C3 amended: group and other never gain a bit, and the mode is left as it
\* was or set to exactly rw------- (where the owner may gain read or write).
C3_GroupOtherNeverWiden ==
  Harden =>
    /\ BitAnd(BitAnd(mode, S_IRWXG + S_IRWXO), mode0) = BitAnd(mode, S_IRWXG + S_IRWXO)
    /\ mode \in {mode0, Mode600}
    /\ perm_result = "fixed" => mode = Mode600

\* C3 witness: r--r----- was remediated to rw-------.
C3_Witness ==
  /\ Harden /\ perm_result = "fixed"
  /\ mode0 = 288 /\ mode = Mode600

\* C4: a declined proposal never mutates the document. A field of the loaded
\* document (bind, auth, a channel's settings) and the file mode differ from
\* their values at the start of the run only if a proposal for that field was
\* accepted; and a run that ends with every proposal declined reports no
\* change and does not write the config file.
C4_DeclineLeavesDocument ==
  (Harden /\ Loaded /\ config # None) =>
    /\ ~HasAnswer("gateway-bind", "", "accept") => BindOf(config) = BindOf(disk0.doc)
    /\ ~(HasAnswer("gateway-auth", "", "accept") \/ HasAnswer("weak-token", "", "accept"))
         => AuthOf(config) = AuthOf(disk0.doc)
    /\ \A i \in 1..Len(ChannelsOf(disk0.doc).items) :
         LET it == ChannelsOf(disk0.doc).items[i]
         IN ~HasAnswer("channel-dm", it.k, "accept")
              => Get(ChannelsOf(config), it.k, None) = it.v
    /\ ~HasAnswer("permissions", "", "accept") => mode = mode0
    /\ (pc = "done" /\ outcome \in NormalEnd /\ AllDeclined(log)) =>
         /\ outcome = "no_changes" /\ ~changes_made
         /\ config = disk0.doc /\ disk = disk0

\* C4 witness: the bind proposal for an exposed bind was declined, as was
\* every other proposal, and the run ended with the bind still exposed.
C4_Witness ==
  /\ Harden /\ pc = "done" /\ outcome = "no_changes"
  /\ HasAnswer("gateway-bind", "", "decline") /\ AllDeclined(log)
  /\ Len(log) >= 2
  /\ BindOf(config) \in ExposedBinds

\* C5: end of input at a confirmation prompt is an implicit decline: the run
\* does not crash and reaches its normal end.
C5_EofIsDecline ==
  Harden =>
    /\ outcome # "EOFError"
    /\ (pc = "done" /\ \E i \in 1..Len(log) : log[i].answer = "eof")
         => outcome \in NormalEnd

\* C6: when the permission step fails (stat or chmod denied) the run goes on
\* to the gateway and channel remediations and reaches its normal end.
C6_PermissionFailureDoesNotBlock ==
  (Harden /\ perm_result = "failed") =>
    /\ pc # "done" \/ outcome \in NormalEnd
    /\ pc \in {"gw_bind", "gw_auth", "channels", "save", "done"}

\* the complete report of an audit of cfg
AllFindings(cfg, m, plat) ==
  check_file_permissions(m, plat, TRUE).findings
  \o check_gateway(cfg)
  \o check_channels(cfg)
  \o [i \in 1..Len(walk_json(cfg, <<>>)) |-> SecretFinding(walk_json(cfg, <<>>)[i])]

\* C7: for every config that loads and that the audit evaluates (a non-empty
\* document; the empty document is the case of C10), the audit runs the four
\* checks in order, prints every finding, none of which stops a later one,
\* reaches "Audit Complete" and changes nothing.
C7_AuditProducesAllFindings ==
  (Audit /\ Loaded /\ Truthy(disk0.doc) /\ pc = "done" /\ outcome # "OSError") =>
    /\ outcome = "audit_complete"
    /\ findings = AllFindings(disk0.doc, mode0, platform)
    /\ config = disk0.doc /\ disk = disk0 /\ mode = mode0

\* C8: the masked rendering of every flagged string is its first 4 characters,
\* "...", and its last 4 characters, and at least one character of the value
\* is not printed.
C8_MaskHidesSomething ==
  (Audit /\ Loaded) =>
    \A i \in 1..Len(findings) :
      findings[i].category = "secret-leak" =>
        \E j \in 1..Len(walk_json(disk0.doc, <<>>)) :
          LET leaf == walk_json(disk0.doc, <<>>)[j]
          IN /\ leaf.path = findings[i].location
             /\ findings[i].text = masked(leaf.value)
             /\ Len(Head_(leaf.value, MaskKeep)) + Len(Tail_(leaf.value, MaskKeep))
                  < Len(leaf.value)

\* the state remediation is meant to reach
Hardened(cfg) ==
  /\ BindOf(cfg) \notin ExposedBinds
  /\ ModeOf(cfg) # s_none
  /\ ModeOf(cfg) = s_token => Len(TokenOf(cfg).chars) >= MinTokenLen
  /\ \A i \in 1..Len(ChannelsOf(cfg).items) :
       LET st == ChannelsOf(cfg).items[i].v
       IN Truthy(Get(st, "enabled", Bool(FALSE)))
            => Get(st, "dmPolicy", s_pairing) # s_open

\* C9: after a run in which every proposal was accepted the document is
\* hardened; a second run over the saved document makes no proposal and
\* leaves the document and the file identical.
C9_Idempotent ==
  Harden =>
    /\ (pc = "done" /\ outcome \in Completed /\ AllAccepted(log)) => Hardened(config)
    /\ (run > 1 /\ prev.all_accepted /\ prev.outcome \in {"saved", "no_changes", "empty_config"})
         => /\ log = <<>>
            /\ disk = disk0
            /\ pc = "done" => config = disk0.doc

\* C10: a parsed document with no gateway subtree is evaluated as bind =
\* loopback, mode = token, token empty: the audit reports the bind as pass and
\* the token as weak, and the harden run proposes a token rotation.
C10_AbsentGatewayDefaults ==
  (Loaded /\ ~HasKey(disk0.doc, "gateway") /\ pc = "done") =>
    /\ (Audit /\ outcome # "OSError") =>
         /\ \E i \in 1..Len(findings) :
              findings[i].category = "gateway-bind" /\ findings[i].severity = "pass"
         /\ \E i \in 1..Len(findings) :
              findings[i].category = "gateway-auth" /\ findings[i].severity = "warn"
    /\ (Harden /\ outcome \in Completed) =>
         \E i \in 1..Len(log) : log[i].kind = "weak-token"

====
